---- MODULE Spec2Model ----
(***************************************************************************)
(* A model of ls_net's route-table subsystem (src/src/route_table/*.rs):   *)
(* the RouteEntry / RouteTable model, the Linux and macOS parsers of       *)
(* `netstat -rn` output, the collectors that run the command, and the      *)
(* report get_route_table(protocol).                                       *)
(*                                                                         *)
(* Rust strings are modelled as sequences of one-character strings, so     *)
(* that trim, split_whitespace, starts_with, len and is_ascii_digit are    *)
(* computed rather than assumed.  Option<T> is a sequence of length 0      *)
(* (None) or 1 (Some(x)).                                                  *)
(***************************************************************************)
EXTENDS Naturals, Integers, Sequences, FiniteSets, TLC

VARIABLES
    target_os,        \* the cfg!(target_os = ...) of the build
    pc,               \* position of the running function
    cmd,              \* outcome of Command::new("netstat").args(["-rn"]).output()
    output,           \* the text handed to the parser
    lines,            \* parser local: output.lines().collect()
    pos,              \* parser local: number of lines the for loop has consumed
    header_parsed,    \* parser local
    current_section,  \* macOS parser local: Option<IpVersion>
    route_table,      \* the RouteTable value being built or queried
    result,           \* the value the running function returned (None while running)
    protocol,         \* the argument of get_route_table
    stdout,           \* what get_route_table has printed, one element per println!
    calls,            \* the entries a caller passes to add_route, in call order
    ncalls,           \* how many of them have been passed
    ret,              \* the value returned by the last query on the table
    caller,           \* "run" while run is waiting for get_route_table
    env,              \* run's argument only_show_ip and what its collaborators return
    stderr            \* what run has written with eprintln!

vars == <<target_os, pc, cmd, output, lines, pos, header_parsed, current_section,
          route_table, result, protocol, stdout, calls, ncalls, ret, caller,
          env, stderr>>

----------------------------------------------------------------------------
(* Bounds of the model. *)

MaxLines == 4

MaxCalls == 3

----------------------------------------------------------------------------
(* Option<T> *)

None == << >>

Some(x) == << x >>

is_some(o) == Len(o) = 1

unwrap(o) == o[1]

----------------------------------------------------------------------------
(* String literals of the source and of the sample inputs. *)

S_Destination == <<"D","e","s","t","i","n","a","t","i","o","n">>

S_InternetColon == <<"I","n","t","e","r","n","e","t",":">>

S_Internet6Colon == <<"I","n","t","e","r","n","e","t","6",":">>

S_Expire == <<"E","x","p","i","r","e">>

S_default == <<"d","e","f","a","u","l","t">>

S_0000 == <<"0",".","0",".","0",".","0">>

S_v6any == <<":",":","/","0">>

S_empty == << >>

SP == <<" ">>

NL == <<"\n">>

----------------------------------------------------------------------------
(* The std string functions the parsers use. *)

(* A text is the sequence of its characters.  An ASCII character is written  *)
(* as itself, in a string of length 1; any other character, and a control    *)
(* character TLA+ cannot write, is written by its code point in hexadecimal, *)
(* "U+000B", "U+00E9", "U+1F600".                                            *)

\* The characters with the Unicode property White_Space.
WhiteSpace ==
    {"\t", "\n", "U+000B", "\f", "\r", " ", "U+0085", "U+00A0", "U+1680",
     "U+2000", "U+2001", "U+2002", "U+2003", "U+2004", "U+2005", "U+2006",
     "U+2007", "U+2008", "U+2009", "U+200A", "U+2028", "U+2029", "U+202F",
     "U+205F", "U+3000"}

HexDigits ==
    <<"0", "1", "2", "3", "4", "5", "6", "7", "8", "9", "A", "B", "C", "D", "E", "F">>

hex_digit(d) == (CHOOSE i \in DOMAIN HexDigits : HexDigits[i] = d) - 1

\* The number a string of hexadecimal digits writes.
RECURSIVE hex_value(_)
hex_value(h) ==
    IF Len(h) = 1 THEN hex_digit(h)
    ELSE hex_value(SubSeq(h, 1, Len(h) - 1)) * Len(HexDigits)
             + hex_digit(SubSeq(h, Len(h), Len(h)))

\* The code point of a character written "U+...".
code_point(c) == hex_value(SubSeq(c, 3, Len(c)))

\* char::len_utf8: 1 below U+0080, 2 below U+0800, 3 below U+10000, else 4.
len_utf8(c) ==
    IF Len(c) = 1 THEN 1
    ELSE IF code_point(c) < 128 THEN 1
    ELSE IF code_point(c) < 2048 THEN 2
    ELSE IF code_point(c) < 65536 THEN 3
    ELSE 4

\* str::len: the number of bytes of a text.
RECURSIVE String_len(_)
String_len(s) ==
    IF s = << >> THEN 0 ELSE len_utf8(Head(s)) + String_len(Tail(s))

\* char::is_whitespace
is_whitespace(c) == c \in WhiteSpace

is_ascii_digit(c) == c \in {"0","1","2","3","4","5","6","7","8","9"}

starts_with(s, prefix) ==
    /\ Len(s) >= Len(prefix)
    /\ SubSeq(s, 1, Len(prefix)) = prefix

SetMin(S) == CHOOSE x \in S : \A y \in S : x <= y

SetMax(S) == CHOOSE x \in S : \A y \in S : y <= x

\* str::trim: drop the leading and the trailing whitespace.
trim(s) ==
    LET keep == {i \in DOMAIN s : ~is_whitespace(s[i])}
    IN  IF keep = {} THEN << >> ELSE SubSeq(s, SetMin(keep), SetMax(keep))

\* str::split_whitespace: the maximal runs of non-whitespace, in order.
RECURSIVE split_whitespace(_)
split_whitespace(s) ==
    LET keep == {i \in DOMAIN s : ~is_whitespace(s[i])}
    IN  IF keep = {} THEN << >>
        ELSE LET b == SetMin(keep)
                 ws == {i \in b..Len(s) : is_whitespace(s[i])}
                 e == IF ws = {} THEN Len(s) ELSE SetMin(ws) - 1
             IN  <<SubSeq(s, b, e)>> \o split_whitespace(SubSeq(s, e + 1, Len(s)))

\* str::lines: split at "\n", a "\r" before the "\n" is dropped with it,
\* and a text that ends in "\n" has no empty last line.
RECURSIVE str_lines(_)
str_lines(s) ==
    IF s = << >> THEN << >>
    ELSE LET nls == {i \in DOMAIN s : s[i] = "\n"}
         IN  IF nls = {} THEN <<s>>
             ELSE LET k == SetMin(nls)
                      head == SubSeq(s, 1, k - 1)
                      line == IF head # << >> /\ head[Len(head)] = "\r"
                              THEN SubSeq(head, 1, Len(head) - 1) ELSE head
                  IN  <<line>> \o str_lines(SubSeq(s, k + 1, Len(s)))

----------------------------------------------------------------------------
(* RouteEntry, IpVersion, RouteTable (route_table/mod.rs). *)

IpVersion == {"IPv4", "IPv6"}

RouteEntry(destination, gateway, flags, iface, ip_version, genmask, expire) ==
    [destination |-> destination, gateway |-> gateway, flags |-> flags,
     iface |-> iface, ip_version |-> ip_version, genmask |-> genmask,
     expire |-> expire]

\* get_field with the genmask and expire arms exchanged.
get_field_swapped(self, field) ==
    CASE field = "destination" -> Some(self.destination)
      [] field = "gateway" -> Some(self.gateway)
      [] field = "flags" -> Some(self.flags)
      [] field = "iface" -> Some(self.iface)
      [] field = "genmask" -> self.expire
      [] field = "expire" -> self.genmask
      [] OTHER -> None

get_field(self, field) ==
    CASE field = "destination" -> Some(self.destination)
      [] field = "gateway" -> Some(self.gateway)
      [] field = "flags" -> Some(self.flags)
      [] field = "iface" -> Some(self.iface)
      [] field = "genmask" -> self.genmask
      [] field = "expire" -> self.expire
      [] OTHER -> None

new == [ipv4_routes |-> << >>, ipv6_routes |-> << >>]

\* add_route that skips an entry the sequence already holds.
add_route_dedup(self, route) ==
    LET present(routes) == \E i \in DOMAIN routes : routes[i] = route
    IN  IF route.ip_version = "IPv4"
        THEN IF present(self.ipv4_routes) THEN self
             ELSE [self EXCEPT !.ipv4_routes = Append(@, route)]
        ELSE IF present(self.ipv6_routes) THEN self
             ELSE [self EXCEPT !.ipv6_routes = Append(@, route)]

add_route(self, route) ==
    IF route.ip_version = "IPv4"
    THEN [self EXCEPT !.ipv4_routes = Append(@, route)]
    ELSE [self EXCEPT !.ipv6_routes = Append(@, route)]

is_default_destination(route) ==
    \/ route.destination = S_default
    \/ route.destination = S_0000
    \/ route.destination = S_v6any

\* find_default that keeps looking and returns the last match.
RECURSIVE find_default_last(_)
find_default_last(routes) ==
    IF routes = << >> THEN None
    ELSE IF is_default_destination(routes[Len(routes)]) THEN Some(routes[Len(routes)])
    ELSE find_default_last(SubSeq(routes, 1, Len(routes) - 1))

\* Iterator::find: the first element the closure accepts.
RECURSIVE find_default(_)
find_default(routes) ==
    IF routes = << >> THEN None
    ELSE IF is_default_destination(Head(routes)) THEN Some(Head(routes))
    ELSE find_default(Tail(routes))

get_default_gateway(self, ip_version) ==
    LET routes == IF ip_version = "IPv4" THEN self.ipv4_routes ELSE self.ipv6_routes
    IN  find_default(routes)

----------------------------------------------------------------------------
(* Sample field values for the callers of the RouteTable interface. *)

S_gw1 == <<"1","0",".","0",".","0",".","1">>

S_gw2 == <<"f","e","8","0",":",":","1">>

S_net4 == <<"1","0",".","0",".","0",".","0">>

S_net6 == <<"f","e","8","0",":",":">>

S_defaults == <<"d","e","f","a","u","l","t","s">>

S_mask == <<"2","5","5",".","0",".","0",".","0">>

S_U == <<"U">>

S_UG == <<"U","G">>

S_eth0 == <<"e","t","h","0">>

S_en0 == <<"e","n","0">>

S_12 == <<"1","2">>

\* Entries a caller may pass to add_route: default routes of both versions
\* under each of the three literals, ordinary routes, a destination that only
\* starts with "default", and both optional fields set and unset.
ApiEntries ==
    { RouteEntry(S_default, S_gw1, S_UG, S_en0, "IPv4", None, None),
      RouteEntry(S_0000, S_gw2, S_UG, S_eth0, "IPv4", Some(S_0000), None),
      RouteEntry(S_net4, S_0000, S_U, S_eth0, "IPv4", Some(S_mask), None),
      RouteEntry(S_defaults, S_gw1, S_U, S_en0, "IPv4", None, Some(S_empty)),
      RouteEntry(S_v6any, S_gw1, S_UG, S_en0, "IPv6", None, Some(S_12)),
      RouteEntry(S_default, S_gw2, S_UG, S_en0, "IPv6", None, None),
      RouteEntry(S_net6, S_gw2, S_U, S_en0, "IPv6", None, None) }

\* Field names a caller may pass to get_field.
FieldNames ==
    {"destination", "gateway", "flags", "iface", "interface", "genmask",
     "expire", "metric"}

Unit == [op |-> "none", arg |-> << >>, value |-> None]

----------------------------------------------------------------------------
(* SpecApi: a caller drives one RouteTable through its public interface. *)

InitApi ==
    /\ target_os = "linux"
    /\ pc = "api"
    /\ cmd = None
    /\ output = << >>
    /\ lines = << >>
    /\ pos = 0
    /\ header_parsed = FALSE
    /\ current_section = None
    /\ route_table = new
    /\ result = None
    /\ protocol = "ipv4"
    /\ stdout = << >>
    /\ calls = << >>
    /\ ncalls = 0
    /\ ret = Unit
    /\ caller = "none"
    /\ env = None
    /\ stderr = << >>

\* route_table.add_route(route)
AddRoute ==
    /\ pc = "api"
    /\ ncalls < MaxCalls
    /\ \E route \in ApiEntries :
         /\ route_table' = add_route(route_table, route)
         /\ calls' = Append(calls, route)
    /\ ncalls' = ncalls + 1
    /\ ret' = Unit
    /\ UNCHANGED <<caller, env, stderr, target_os, pc, cmd, output, lines, pos, header_parsed,
                   current_section, result, protocol, stdout>>

\* route_table.get_default_gateway(ip_version)
GetDefaultGateway ==
    /\ pc = "api"
    /\ \E v \in IpVersion :
         ret' = [op |-> "get_default_gateway", arg |-> <<v>>,
                 value |-> get_default_gateway(route_table, v)]
    /\ UNCHANGED <<caller, env, stderr, target_os, pc, cmd, output, lines, pos, header_parsed,
                   current_section, route_table, result, protocol, stdout,
                   calls, ncalls>>

\* route.get_field(field) on an entry of the table
GetField ==
    /\ pc = "api"
    /\ \E route \in {route_table.ipv4_routes[i] : i \in DOMAIN route_table.ipv4_routes}
                    \cup {route_table.ipv6_routes[i] : i \in DOMAIN route_table.ipv6_routes} :
         \E field \in FieldNames :
           ret' = [op |-> "get_field", arg |-> <<route, field>>,
                   value |-> get_field(route, field)]
    /\ UNCHANGED <<caller, env, stderr, target_os, pc, cmd, output, lines, pos, header_parsed,
                   current_section, route_table, result, protocol, stdout,
                   calls, ncalls>>

NextApi == AddRoute \/ GetDefaultGateway \/ GetField

SpecApi == InitApi /\ [][NextApi]_vars

----------------------------------------------------------------------------
(* anyhow errors: the kind of the source error and its message. *)

S_UnsupportedOS == <<"U","n","s","u","p","p","o","r","t","e","d"," ","o","p","e","r","a","t","i","n","g"," ","s","y","s","t","e","m">>

S_NetstatFailed == <<"F","a","i","l","e","d"," ","t","o"," ","e","x","e","c","u","t","e"," ","n","e","t","s","t","a","t"," ","c","o","m","m","a","n","d">>

S_ErrorExecuting == <<"E","r","r","o","r"," ","e","x","e","c","u","t","i","n","g"," ","c","o","m","m","a","n","d",":"," ">>

E_Unsupported == [kind |-> "anyhow", msg |-> S_UnsupportedOS]

E_NetstatFailed == [kind |-> "anyhow", msg |-> S_NetstatFailed]

Ok(x) == [tag |-> "Ok", value |-> Some(x)]

Err(e) == [tag |-> "Err", value |-> Some(e)]

Panic == [tag |-> "Panic", value |-> None]

\* The text of the io::Error of a Unix build for a command not on the PATH.
S_NoSuchFile == <<"N","o"," ","s","u","c","h"," ","f","i","l","e"," ","o","r"," ","d","i","r","e","c","t","o","r","y"," ","(","o","s"," ","e","r","r","o","r"," ","2",")">>

E_Io == [kind |-> "io::Error", msg |-> S_NoSuchFile]

\* The text of the io::Error of a Windows build for a program it cannot find.
S_ProgramNotFound == <<"p","r","o","g","r","a","m"," ","n","o","t"," ","f","o","u","n","d">>

E_ProgramNotFound == [kind |-> "io::Error", msg |-> S_ProgramNotFound]

S_InvalidUtf8 == <<"i","n","v","a","l","i","d"," ","u","t","f","-","8"," ","s","e","q","u","e","n","c","e"," ","o","f"," ","1"," ","b","y","t","e","s"," ","f","r","o","m"," ","i","n","d","e","x"," ">>

\* The error of from_utf8 for an invalid byte at byte 0.
E_Utf8 == [kind |-> "FromUtf8Error", msg |-> S_InvalidUtf8 \o <<"0">>]

\* The error of from_utf8 for an invalid byte behind one character of two bytes.
E_Utf8At2 == [kind |-> "FromUtf8Error", msg |-> S_InvalidUtf8 \o <<"2">>]

(* The bytes of a command's output are the characters of its text; a byte    *)
(* that no UTF-8 text contains is written 0xFF or 0xFE.                      *)

InvalidBytes == {"0xFF", "0xFE"}

\* U+FFFD REPLACEMENT CHARACTER
S_Replacement == "U+FFFD"

DecimalDigits == <<"0", "1", "2", "3", "4", "5", "6", "7", "8", "9">>

\* The decimal text of a natural number.
RECURSIVE to_string(_)
to_string(n) ==
    IF n < Len(DecimalDigits) THEN <<DecimalDigits[n + 1]>>
    ELSE to_string(n \div Len(DecimalDigits))
             \o <<DecimalDigits[(n % Len(DecimalDigits)) + 1]>>

\* String::from_utf8: the text, or the error naming the number of bytes of
\* the text before the first invalid byte (valid_up_to).
from_utf8(bytes) ==
    LET invalid == {i \in DOMAIN bytes : bytes[i] \in InvalidBytes}
    IN  IF invalid = {} THEN Ok(bytes)
        ELSE Err([kind |-> "FromUtf8Error",
                  msg |-> S_InvalidUtf8
                          \o to_string(String_len(SubSeq(bytes, 1, SetMin(invalid) - 1)))])

\* String::from_utf8_lossy: every invalid byte becomes U+FFFD.
from_utf8_lossy(bytes) ==
    [i \in DOMAIN bytes |->
        IF bytes[i] \in InvalidBytes THEN S_Replacement ELSE bytes[i]]

----------------------------------------------------------------------------
(* parse_route_line (route_table/mod.rs).  The result is Ok(route), Err, or  *)
(* a panic: indexing parts[0..3] of a line with fewer than four tokens is    *)
(* out of bounds, and the windows branch is todo!().                         *)

\* `any` in place of `all`.
any_ascii_digit(s) == \E i \in DOMAIN s : is_ascii_digit(s[i])

all_ascii_digit(s) == \A i \in DOMAIN s : is_ascii_digit(s[i])

parse_route_line(line, ip_version, os) ==
    LET parts == split_whitespace(line)
        n == Len(parts)
    IN  IF os = "macos"
        THEN IF n < 4 THEN Panic
             ELSE LET last_part == parts[n]
                      expire == IF last_part = S_Expire THEN Some(S_Expire)
                                ELSE IF all_ascii_digit(last_part) THEN Some(last_part)
                                ELSE None
                  IN  Ok(RouteEntry(parts[1], parts[2], parts[3], parts[4],
                                    ip_version, None, expire))
        ELSE IF os = "linux"
        THEN IF n < 4 THEN Panic
             ELSE Ok(RouteEntry(parts[1], parts[2], parts[4], parts[n],
                                ip_version, Some(parts[3]), None))
        ELSE IF os = "windows" THEN Panic
        ELSE Err(E_Unsupported)

----------------------------------------------------------------------------
(* The loop bodies of the two parsers, as functions of the parser's locals. *)
(* st = [header_parsed, current_section, route_table, panicked].            *)

\* parse_linux_route_output: one iteration of `for line in lines`.
linux_line(st, line, os) ==
    LET trimmed == trim(line)
        hp == st.header_parsed \/ starts_with(trimmed, S_Destination)
        r == parse_route_line(trimmed, "IPv4", os)
    IN  IF trimmed = << >> THEN st
        ELSE IF ~hp THEN st
        ELSE IF r.tag = "Ok"
             THEN [st EXCEPT !.header_parsed = hp,
                             !.route_table = add_route(@, unwrap(r.value))]
        ELSE IF r.tag = "Err" THEN [st EXCEPT !.header_parsed = hp]
        ELSE [st EXCEPT !.header_parsed = hp, !.panicked = TRUE]

\* macos_line whose "Internet6:" branch selects IpVersion::IPv4.
macos_line_one_section(st, line, os) ==
    LET trimmed == trim(line)
        hp == st.header_parsed \/ starts_with(trimmed, S_Destination)
        r == parse_route_line(trimmed, unwrap(st.current_section), os)
    IN  IF trimmed = << >> THEN st
        ELSE IF starts_with(trimmed, S_InternetColon)
        THEN [st EXCEPT !.current_section = Some("IPv4"), !.header_parsed = FALSE]
        ELSE IF starts_with(trimmed, S_Internet6Colon)
        THEN [st EXCEPT !.current_section = Some("IPv4"), !.header_parsed = FALSE]
        ELSE IF ~is_some(st.current_section) \/ ~hp
        THEN [st EXCEPT !.header_parsed = hp]
        ELSE IF r.tag = "Ok"
             THEN [st EXCEPT !.header_parsed = hp,
                             !.route_table = add_route(@, unwrap(r.value))]
        ELSE IF r.tag = "Err" THEN [st EXCEPT !.header_parsed = hp]
        ELSE [st EXCEPT !.header_parsed = hp, !.panicked = TRUE]

\* macos_line whose section markers leave header_parsed as it is.
macos_line_no_reset(st, line, os) ==
    LET trimmed == trim(line)
        hp == st.header_parsed \/ starts_with(trimmed, S_Destination)
        r == parse_route_line(trimmed, unwrap(st.current_section), os)
    IN  IF trimmed = << >> THEN st
        ELSE IF starts_with(trimmed, S_InternetColon)
        THEN [st EXCEPT !.current_section = Some("IPv4")]
        ELSE IF starts_with(trimmed, S_Internet6Colon)
        THEN [st EXCEPT !.current_section = Some("IPv6")]
        ELSE IF ~is_some(st.current_section) \/ ~hp
        THEN [st EXCEPT !.header_parsed = hp]
        ELSE IF r.tag = "Ok"
             THEN [st EXCEPT !.header_parsed = hp,
                             !.route_table = add_route(@, unwrap(r.value))]
        ELSE IF r.tag = "Err" THEN [st EXCEPT !.header_parsed = hp]
        ELSE [st EXCEPT !.header_parsed = hp, !.panicked = TRUE]

\* parse_macos_route_output: one iteration of `for line in lines`.
macos_line(st, line, os) ==
    LET trimmed == trim(line)
        hp == st.header_parsed \/ starts_with(trimmed, S_Destination)
        r == parse_route_line(trimmed, unwrap(st.current_section), os)
    IN  IF trimmed = << >> THEN st
        ELSE IF starts_with(trimmed, S_InternetColon)
        THEN [st EXCEPT !.current_section = Some("IPv4"), !.header_parsed = FALSE]
        ELSE IF starts_with(trimmed, S_Internet6Colon)
        THEN [st EXCEPT !.current_section = Some("IPv6"), !.header_parsed = FALSE]
        ELSE IF ~is_some(st.current_section) \/ ~hp
        THEN [st EXCEPT !.header_parsed = hp]
        ELSE IF r.tag = "Ok"
             THEN [st EXCEPT !.header_parsed = hp,
                             !.route_table = add_route(@, unwrap(r.value))]
        ELSE IF r.tag = "Err" THEN [st EXCEPT !.header_parsed = hp]
        ELSE [st EXCEPT !.header_parsed = hp, !.panicked = TRUE]

\* The locals at the top of either parser.
parser_start ==
    [header_parsed |-> FALSE, current_section |-> None, route_table |-> new,
     panicked |-> FALSE]

----------------------------------------------------------------------------
(* Sample `netstat -rn` output. *)

S_Kernel == <<"K","e","r","n","e","l">>

S_IP == <<"I","P">>

S_routing == <<"r","o","u","t","i","n","g">>

S_table == <<"t","a","b","l","e">>

S_Gateway == <<"G","a","t","e","w","a","y">>

S_Genmask == <<"G","e","n","m","a","s","k">>

S_Flags == <<"F","l","a","g","s">>

S_Iface == <<"I","f","a","c","e">>

S_Netif == <<"N","e","t","i","f">>

S_UGSc == <<"U","G","S","c">>

S_lo0 == <<"l","o","0">>

S_up == <<"u","p">>

L_Kernel == S_Kernel \o SP \o S_IP \o SP \o S_routing \o SP \o S_table

L_LinuxHeader ==
    S_Destination \o SP \o SP \o S_Gateway \o SP \o S_Genmask \o SP \o S_Flags
        \o SP \o S_Iface

\* A row with a column between flags and the interface.
L_LinuxDefault ==
    S_0000 \o SP \o S_gw1 \o SP \o S_0000 \o SP \o S_UG \o SP \o <<"0">> \o SP \o S_eth0

\* A row with leading and trailing whitespace, its columns separated by a
\* tab, a form feed, a vertical tab and a space, and ended by a no-break space.
L_LinuxNet ==
    SP \o S_net4 \o <<"\t">> \o S_0000 \o <<"\f">> \o S_mask \o <<"U+000B">>
       \o S_U \o SP \o S_en0 \o <<"U+00A0">>

\* An interface name with a character of two bytes.
S_e0 == <<"U+00E9", "0">>

\* An interface name of five characters, of 2, 3, 4, 1 and 1 bytes.
S_etheo == <<"U+00E9", "U+20AC", "U+1F600", "h", "0">>

\* A row whose interface has as many characters as the header's and more bytes.
L_LinuxAccent ==
    S_net4 \o SP \o S_0000 \o SP \o S_mask \o SP \o S_U \o SP \o S_etheo

\* A row with two tokens.
L_Short == S_lo0 \o SP \o S_up

L_Blank == SP \o SP

L_Inet == S_InternetColon

L_Inet6 == S_Internet6Colon

L_MacHeader ==
    S_Destination \o SP \o S_Gateway \o SP \o S_Flags \o SP \o S_Netif \o SP \o S_Expire

L_MacDefault == S_default \o SP \o S_gw1 \o SP \o S_UGSc \o SP \o S_en0

L_Mac6 == S_v6any \o SP \o S_gw2 \o SP \o S_UG \o SP \o S_en0 \o SP \o S_12

LinuxLines == {L_Kernel, L_LinuxHeader, L_LinuxDefault, L_LinuxNet, L_Short, L_Blank}

MacLines == {L_Inet, L_Inet6, L_MacHeader, L_MacDefault, L_Mac6, L_Short}

\* The text of a sequence of lines, each ended by a newline.
RECURSIVE text_of(_)
text_of(ls) == IF ls = << >> THEN << >> ELSE Head(ls) \o NL \o text_of(Tail(ls))

\* Texts of at most MaxLines lines drawn from L.
Texts(L) == {text_of(ls) : ls \in UNION {[1..n -> L] : n \in 0..MaxLines}}

----------------------------------------------------------------------------
(* The outcome of Command::new("netstat").args(&["-rn"]).output(). *)

S_NotFound == <<"n","e","t","s","t","a","t",":"," ","c","o","m","m","a","n","d"," ","n","o","t"," ","f","o","u","n","d">>

S_Denied == <<"p","e","r","m","i","s","s","i","o","n"," ","d","e","n","i","e","d">>

StderrTexts == {S_NotFound, S_Denied}

Cmd(spawned, success, utf8, out, err, error) ==
    [spawned |-> spawned, success |-> success, utf8 |-> utf8, stdout |-> out,
     stderr |-> err, error |-> error]

\* The io::Error of a command that cannot be started, as the build's std
\* words it.
SpawnErrors(os) == IF os = "windows" THEN {E_ProgramNotFound} ELSE {E_Io}

\* Output that is not UTF-8: two invalid bytes and a newline; a character of
\* two bytes, an invalid byte and a newline.
NotUtf8Bytes == {<<"0xFF", "0xFE", "\n">>, <<"U+00E9", "0xFF", "\n">>}

\* The command cannot be started; it exits nonzero with a message on stderr;
\* it succeeds with bytes that are not UTF-8; it succeeds with a text of T.
CmdOutcomes(os, T) ==
    {Cmd(FALSE, FALSE, TRUE, << >>, << >>, Some(e)) : e \in SpawnErrors(os)}
        \cup {Cmd(TRUE, FALSE, TRUE, << >>, e, None) : e \in StderrTexts}
        \cup {Cmd(TRUE, TRUE, FALSE, b, << >>, None) : b \in NotUtf8Bytes}
        \cup {Cmd(TRUE, TRUE, TRUE, t, << >>, None) : t \in T}

----------------------------------------------------------------------------
(* SpecParse: get_linux_routes / get_macos_routes run once, the parser       *)
(* stepping through its loop one line at a time.                             *)

ParserOS == {"linux", "macos"}

InitParse ==
    /\ target_os \in ParserOS
    /\ \/ pc = "get_linux_routes" /\ cmd \in CmdOutcomes(target_os, Texts(LinuxLines))
       \/ pc = "get_macos_routes" /\ cmd \in CmdOutcomes(target_os, Texts(MacLines))
    /\ output = << >>
    /\ lines = << >>
    /\ pos = 0
    /\ header_parsed = FALSE
    /\ current_section = None
    /\ route_table = new
    /\ result = None
    /\ protocol = "ipv4"
    /\ stdout = << >>
    /\ calls = << >>
    /\ ncalls = 0
    /\ ret = Unit
    /\ caller = "none"
    /\ env = None
    /\ stderr = << >>

Collecting == pc \in {"get_linux_routes", "get_macos_routes"}

\* `Command::new("netstat").args(&["-rn"]).output()?` fails to start the command.
SpawnError ==
    /\ Collecting
    /\ ~cmd.spawned
    /\ result' = Some(Err(unwrap(cmd.error)))
    /\ pc' = "done"
    /\ UNCHANGED <<caller, env, stderr, target_os, cmd, output, lines, pos, header_parsed,
                   current_section, route_table, protocol, stdout, calls,
                   ncalls, ret>>

\* `if !output.status.success() { return Err(anyhow!(...)) }`
ExitFailure ==
    /\ Collecting
    /\ cmd.spawned
    /\ ~cmd.success
    /\ result' = Some(Err(E_NetstatFailed))
    /\ pc' = "done"
    /\ UNCHANGED <<caller, env, stderr, target_os, cmd, output, lines, pos, header_parsed,
                   current_section, route_table, protocol, stdout, calls,
                   ncalls, ret>>

\* `String::from_utf8(output.stdout)?` fails.
NotUtf8 ==
    /\ Collecting
    /\ cmd.spawned
    /\ cmd.success
    /\ from_utf8(cmd.stdout).tag = "Err"
    /\ result' = Some(from_utf8(cmd.stdout))
    /\ pc' = "done"
    /\ UNCHANGED <<caller, env, stderr, target_os, cmd, output, lines, pos, header_parsed,
                   current_section, route_table, protocol, stdout, calls,
                   ncalls, ret>>

\* The collector calls its parser, which sets up its locals.
ParseStart ==
    /\ Collecting
    /\ cmd.spawned
    /\ cmd.success
    /\ from_utf8(cmd.stdout).tag = "Ok"
    /\ output' = unwrap(from_utf8(cmd.stdout).value)
    /\ lines' = str_lines(unwrap(from_utf8(cmd.stdout).value))
    /\ pos' = 0
    /\ header_parsed' = parser_start.header_parsed
    /\ current_section' = parser_start.current_section
    /\ route_table' = parser_start.route_table
    /\ pc' = IF pc = "get_linux_routes" THEN "linux_loop" ELSE "macos_loop"
    /\ UNCHANGED <<caller, env, stderr, target_os, cmd, result, protocol, stdout, calls, ncalls, ret>>

Locals ==
    [header_parsed |-> header_parsed, current_section |-> current_section,
     route_table |-> route_table, panicked |-> FALSE]

\* parse_linux_route_output: the loop body on the next line.
ParseLinuxLine ==
    /\ pc = "linux_loop"
    /\ pos < Len(lines)
    /\ LET st == linux_line(Locals, lines[pos + 1], target_os)
       IN  /\ header_parsed' = st.header_parsed
           /\ current_section' = st.current_section
           /\ route_table' = st.route_table
           /\ pc' = IF st.panicked THEN "linux_panicked" ELSE pc
    /\ pos' = pos + 1
    /\ UNCHANGED <<caller, env, stderr, target_os, cmd, output, lines, result, protocol, stdout,
                   calls, ncalls, ret>>

\* parse_macos_route_output: the loop body on the next line.
ParseMacosLine ==
    /\ pc = "macos_loop"
    /\ pos < Len(lines)
    /\ LET st == macos_line(Locals, lines[pos + 1], target_os)
       IN  /\ header_parsed' = st.header_parsed
           /\ current_section' = st.current_section
           /\ route_table' = st.route_table
           /\ pc' = IF st.panicked THEN "macos_panicked" ELSE pc
    /\ pos' = pos + 1
    /\ UNCHANGED <<caller, env, stderr, target_os, cmd, output, lines, result, protocol, stdout,
                   calls, ncalls, ret>>

\* `Ok(route_table)` after the last line.
ParseReturn ==
    /\ pc \in {"linux_loop", "macos_loop"}
    /\ pos = Len(lines)
    /\ result' = Some(Ok(route_table))
    /\ pc' = IF pc = "linux_loop" THEN "linux_done" ELSE "macos_done"
    /\ UNCHANGED <<caller, env, stderr, target_os, cmd, output, lines, pos, header_parsed,
                   current_section, route_table, protocol, stdout, calls,
                   ncalls, ret>>

NextParse ==
    \/ SpawnError
    \/ ExitFailure
    \/ NotUtf8
    \/ ParseStart
    \/ ParseLinuxLine
    \/ ParseMacosLine
    \/ ParseReturn

SpecParse == InitParse /\ [][NextParse]_vars

----------------------------------------------------------------------------
(* The parsers and the collectors as functions (route_table/linux.rs,        *)
(* route_table/mac.rs): what a caller of the whole function gets.            *)

RECURSIVE linux_loop(_, _, _)
linux_loop(st, ls, os) ==
    IF ls = << >> \/ st.panicked THEN st
    ELSE linux_loop(linux_line(st, Head(ls), os), Tail(ls), os)

RECURSIVE macos_loop(_, _, _)
macos_loop(st, ls, os) ==
    IF ls = << >> \/ st.panicked THEN st
    ELSE macos_loop(macos_line(st, Head(ls), os), Tail(ls), os)

parse_linux_route_output(text, os) ==
    LET st == linux_loop(parser_start, str_lines(text), os)
    IN  IF st.panicked THEN Panic ELSE Ok(st.route_table)

parse_macos_route_output(text, os) ==
    LET st == macos_loop(parser_start, str_lines(text), os)
    IN  IF st.panicked THEN Panic ELSE Ok(st.route_table)

get_linux_routes(c, os) ==
    IF ~c.spawned THEN Err(unwrap(c.error))
    ELSE IF ~c.success THEN Err(E_NetstatFailed)
    ELSE IF from_utf8(c.stdout).tag = "Err" THEN from_utf8(c.stdout)
    ELSE parse_linux_route_output(unwrap(from_utf8(c.stdout).value), os)

get_macos_routes(c, os) ==
    IF ~c.spawned THEN Err(unwrap(c.error))
    ELSE IF ~c.success THEN Err(E_NetstatFailed)
    ELSE IF from_utf8(c.stdout).tag = "Err" THEN from_utf8(c.stdout)
    ELSE parse_macos_route_output(unwrap(from_utf8(c.stdout).value), os)

----------------------------------------------------------------------------
(* get_route_table (route_table/route_table.rs): what it prints.  A printed  *)
(* line is a record; a row is its five cells, each a text padded to the      *)
(* width of its format argument, with the style colored gives it.            *)

str_len(o) == IF is_some(o) THEN String_len(unwrap(o)) ELSE 0

\* The length of the field in the first entry instead of the maximum.
get_max_len_first(routes, field) ==
    IF routes = << >> THEN 0 ELSE str_len(get_field(routes[1], field))

get_max_len(routes, field) ==
    IF routes = << >> THEN 0
    ELSE SetMax({str_len(get_field(routes[i], field)) : i \in DOMAIN routes})

\* format!("{:width$}", s): s, then spaces up to width characters.
pad(s, width) ==
    IF Len(s) >= width THEN s ELSE s \o [i \in 1..(width - Len(s)) |-> " "]

Cell(text, width, head) ==
    [text |-> pad(text, width), style |-> IF head THEN "blue.bold" ELSE "normal"]

unwrap_or(o, d) == IF is_some(o) THEN unwrap(o) ELSE d

render_row(routes, route, v) ==
    LET expire == unwrap_or(route.expire, S_empty)
    IN  [kind |-> "row", version |-> v,
         cells |-> << [text |-> pad(route.destination, get_max_len(routes, "destination")),
                       style |-> IF route.destination = S_Destination
                                 THEN "blue.bold" ELSE "yellow"],
                      Cell(route.gateway, get_max_len(routes, "gateway") + 2,
                           route.gateway = S_Gateway),
                      Cell(route.flags, get_max_len(routes, "flags") + 2,
                           route.flags = S_Flags),
                      Cell(route.iface, get_max_len(routes, "iface") + 2,
                           route.iface = S_Iface \/ route.iface = S_Netif),
                      Cell(expire, get_max_len(routes, "expire"), expire = S_Expire) >>]

\* The lines of one protocol's section: banner, rows, gateway banner, and the
\* default gateway when there is one.
render_section(table, v) ==
    LET routes == IF v = "IPv4" THEN table.ipv4_routes ELSE table.ipv6_routes
        gw == get_default_gateway(table, v)
    IN  <<[kind |-> "routes_banner", version |-> v]>>
        \o [i \in DOMAIN routes |-> render_row(routes, routes[i], v)]
        \o <<[kind |-> "gateway_banner", version |-> v]>>
        \o (IF is_some(gw)
            THEN <<[kind |-> "default_gateway", version |-> v,
                    gateway |-> unwrap(gw).gateway, iface |-> unwrap(gw).iface]>>
            ELSE << >>)

\* `protocol == "ipv4" || protocol == "all"` with only its first disjunct.
shows_ipv4_only(p) == p = "ipv4"

shows_ipv4(p) == p = "ipv4" \/ p = "all"

shows_ipv6(p) == p = "ipv6" \/ p = "all"

----------------------------------------------------------------------------
(* SpecReport: one call of get_route_table(protocol).                        *)

Protocols == {"ipv4", "ipv6", "all", "tcp"}

S_RouteTableColon == <<"R","o","u","t","e"," ","t","a","b","l","e",":">>

\* The lines the reported command output is drawn from.
ReportLinuxLines == {L_LinuxHeader, L_LinuxDefault, L_LinuxAccent, L_Short}

\* A header row without the Expire column.
L_MacShortHeader ==
    S_Destination \o SP \o S_Gateway \o SP \o S_Flags \o SP \o S_Netif

ReportMacLines ==
    {L_Inet, L_Inet6, L_MacHeader, L_MacShortHeader, L_MacDefault, L_Mac6}

InitReport ==
    /\ pc = "get_route_table"
    /\ protocol \in Protocols
    /\ \/ target_os = "linux" /\ cmd \in CmdOutcomes(target_os, Texts(ReportLinuxLines))
       \/ target_os = "macos" /\ cmd \in CmdOutcomes(target_os, Texts(ReportMacLines))
       \/ target_os \in {"windows", "freebsd"} /\ cmd \in CmdOutcomes(target_os, {text_of(<<L_Kernel>>)})
    /\ output = << >>
    /\ lines = << >>
    /\ pos = 0
    /\ header_parsed = FALSE
    /\ current_section = None
    /\ route_table = new
    /\ result = None
    /\ stdout = << >>
    /\ calls = << >>
    /\ ncalls = 0
    /\ ret = Unit
    /\ caller = "none"
    /\ env = None
    /\ stderr = << >>

Collected ==
    IF target_os = "macos" THEN get_macos_routes(cmd, target_os)
    ELSE get_linux_routes(cmd, target_os)

\* The windows branch: `route print` is run and its output printed raw.
ReportWindows ==
    /\ pc = "get_route_table"
    /\ target_os = "windows"
    /\ IF cmd.spawned /\ cmd.success
       THEN /\ stdout' = Append(stdout, [kind |-> "raw",
                                          text |-> S_RouteTableColon \o NL
                                                   \o from_utf8_lossy(cmd.stdout)])
            /\ result' = Some(Ok(<< >>))
       ELSE /\ stdout' = stdout
            /\ result' = Some(Err([kind |-> "anyhow",
                                   msg |-> S_ErrorExecuting
                                           \o IF cmd.spawned
                                              THEN from_utf8_lossy(cmd.stderr)
                                              ELSE unwrap(cmd.error).msg]))
    /\ pc' = "returned"
    /\ UNCHANGED <<caller, env, stderr, target_os, cmd, output, lines, pos, header_parsed,
                   current_section, route_table, protocol, calls, ncalls, ret>>

\* Neither windows, macos nor linux.
ReportUnsupported ==
    /\ pc = "get_route_table"
    /\ target_os \notin {"windows", "macos", "linux"}
    /\ result' = Some(Err(E_Unsupported))
    /\ pc' = "returned"
    /\ UNCHANGED <<caller, env, stderr, target_os, cmd, output, lines, pos, header_parsed,
                   current_section, route_table, protocol, stdout, calls,
                   ncalls, ret>>

\* `route_table = get_macos_routes()?` / `get_linux_routes()?` returns the error.
ReportCollectError ==
    /\ pc = "get_route_table"
    /\ target_os \in {"macos", "linux"}
    /\ Collected.tag = "Err"
    /\ result' = Some(Collected)
    /\ pc' = "returned"
    /\ UNCHANGED <<caller, env, stderr, target_os, cmd, output, lines, pos, header_parsed,
                   current_section, route_table, protocol, stdout, calls,
                   ncalls, ret>>

\* The parser panics inside the collector: get_route_table does not return.
ReportCollectPanic ==
    /\ pc = "get_route_table"
    /\ target_os \in {"macos", "linux"}
    /\ Collected.tag = "Panic"
    /\ pc' = "panicked"
    /\ UNCHANGED <<caller, env, stderr, target_os, cmd, output, lines, pos, header_parsed,
                   current_section, route_table, result, protocol, stdout,
                   calls, ncalls, ret>>

\* The table is collected and the title printed.
ReportCollect ==
    /\ pc = "get_route_table"
    /\ target_os \in {"macos", "linux"}
    /\ Collected.tag = "Ok"
    /\ output' = cmd.stdout
    /\ route_table' = unwrap(Collected.value)
    /\ stdout' = Append(stdout, [kind |-> "title"])
    /\ pc' = "ipv4_section"
    /\ UNCHANGED <<caller, env, stderr, target_os, cmd, lines, pos, header_parsed, current_section,
                   result, protocol, calls, ncalls, ret>>

\* `if protocol == "ipv4" || protocol == "all" { ... }`
ReportIpv4 ==
    /\ pc = "ipv4_section"
    /\ stdout' = IF shows_ipv4(protocol)
                 THEN stdout \o render_section(route_table, "IPv4") ELSE stdout
    /\ pc' = "ipv6_section"
    /\ UNCHANGED <<caller, env, stderr, target_os, cmd, output, lines, pos, header_parsed,
                   current_section, route_table, result, protocol, calls,
                   ncalls, ret>>

\* `if protocol == "ipv6" || protocol == "all" { ... }` and the final `Ok(())`.
ReportIpv6 ==
    /\ pc = "ipv6_section"
    /\ stdout' = IF shows_ipv6(protocol)
                 THEN stdout \o render_section(route_table, "IPv6") ELSE stdout
    /\ result' = Some(Ok(<< >>))
    /\ pc' = "returned"
    /\ UNCHANGED <<caller, env, stderr, target_os, cmd, output, lines, pos, header_parsed,
                   current_section, route_table, protocol, calls, ncalls, ret>>

NextReport ==
    \/ ReportWindows
    \/ ReportUnsupported
    \/ ReportCollectError
    \/ ReportCollectPanic
    \/ ReportCollect
    \/ ReportIpv4
    \/ ReportIpv6

SpecReport == InitReport /\ [][NextReport]_vars

----------------------------------------------------------------------------
(* run (main.rs): the main IP address, the interface listing, then the       *)
(* route table.  The environment is the addresses the two UDP sockets        *)
(* report and the result of get_if_addrs.                                    *)

S_IPv6NotSupported == <<"I","P","v","6"," ","n","o","t"," ","s","u","p","p","o","r","t","e","d">>

S_NoInterfaces == <<"N","o"," ","n","e","t","w","o","r","k"," ","i","n","t","e","r","f","a","c","e","s"," ","f","o","u","n","d",".">>

S_IPv4Colon == <<"I","P","v","4",":"," ">>

S_IPv6Colon == <<"I","P","v","6",":"," ">>

E_Ipv6NotSupported == [kind |-> "anyhow", msg |-> S_IPv6NotSupported]

E_NoInterfaces == [kind |-> "anyhow", msg |-> S_NoInterfaces]

\* get_local_ip: an error of bind, connect or local_addr is returned by `?`;
\* a V4 local address is formatted, a V6 one is an error.
get_local_ip(socket) ==
    IF socket.tag = "io::Error" THEN Err(unwrap(socket.error))
    ELSE IF socket.tag = "V4" THEN Ok(socket.ip)
    ELSE Err(E_Ipv6NotSupported)

\* The characters of the sample interface names, in byte order.
ByteOrder == <<"0", "1", "e", "l", "n", "o", "U+00E9">>

byte(c) == CHOOSE i \in DOMAIN ByteOrder : ByteOrder[i] = c

\* a.cmp(b) == Ordering::Less on the bytes of two strings.
RECURSIVE str_lt(_, _)
str_lt(a, b) ==
    IF b = << >> THEN FALSE
    ELSE IF a = << >> THEN TRUE
    ELSE IF a[1] = b[1] THEN str_lt(Tail(a), Tail(b))
    ELSE byte(a[1]) < byte(b[1])

\* x placed behind the entries of a sorted sequence that are not greater.
insert_by_name(sorted, x) ==
    LET k == Cardinality({i \in DOMAIN sorted : ~str_lt(x.name, sorted[i].name)})
    IN  SubSeq(sorted, 1, k) \o <<x>> \o SubSeq(sorted, k + 1, Len(sorted))

\* sort_by(|a, b| a.name.cmp(&b.name)): a stable sort by name.
RECURSIVE sort_by_name(_)
sort_by_name(s) ==
    IF s = << >> THEN << >>
    ELSE insert_by_name(sort_by_name(SubSeq(s, 1, Len(s) - 1)), s[Len(s)])

get_ip_interfaces(if_addrs) ==
    IF if_addrs.tag = "Err" THEN if_addrs
    ELSE IF unwrap(if_addrs.value) = << >> THEN Err(E_NoInterfaces)
    ELSE Ok(sort_by_name(unwrap(if_addrs.value)))

\* unwrap_or(10) of the longest name.
DefaultNameLen == 10

max_name_len(interfaces) ==
    IF interfaces = << >> THEN DefaultNameLen
    ELSE SetMax({String_len(interfaces[i].name) : i \in DOMAIN interfaces})

\* The `match protocol` filter of the display loop.
displays(p, interface) ==
    IF p = "ipv4" THEN interface.addr.tag = "V4"
    ELSE IF p = "ipv6" THEN interface.addr.tag = "V6"
    ELSE TRUE

ip_info(addr) ==
    (IF addr.tag = "V4" THEN S_IPv4Colon ELSE S_IPv6Colon)
        \o addr.ip \o <<"/">> \o addr.netmask

\* display_ip_interfaces: what it prints and what it returns.
display_ip_interfaces(p, if_addrs) ==
    LET got == get_ip_interfaces(if_addrs)
    IN  IF got.tag = "Err" THEN [printed |-> << >>, result |-> got]
        ELSE LET sorted_interfaces == unwrap(got.value)
                 shown == SelectSeq(sorted_interfaces, LAMBDA i : displays(p, i))
                 row(i) == [kind |-> "interface",
                            name |-> pad(i.name, max_name_len(sorted_interfaces)),
                            ip_info |-> ip_info(i.addr)]
             IN  [printed |->
                      [k \in DOMAIN shown |-> row(shown[k])]
                          \o << [kind |-> "banner", color |-> "green"],
                                [kind |-> "found",
                                 len_interfaces |-> Len(sorted_interfaces),
                                 displayed_count |-> Len(shown)] >>,
                  result |-> Ok(<< >>)]

\* Lines 35-59 of run: the title, the main IP address or its error, the
\* interface listing or its error between two banners, and an empty line.
run_listing(p, socket, if_addrs) ==
    LET ip == get_local_ip(socket)
        shown == display_ip_interfaces(p, if_addrs)
        failed == shown.result.tag = "Err"
    IN  [stdout |->
             << [kind |-> "interfaces_title"] >>
                 \o (IF ip.tag = "Ok"
                     THEN << [kind |-> "main_ip", ip |-> unwrap(ip.value)] >>
                     ELSE << >>)
                 \o shown.printed
                 \o (IF failed
                     THEN << [kind |-> "banner", color |-> "red"],
                             [kind |-> "banner", color |-> "red"] >>
                     ELSE << >>)
                 \o << [kind |-> "empty"] >>,
         stderr |->
             (IF ip.tag = "Err"
              THEN << [kind |-> "ip_error", error |-> unwrap(ip.value)] >>
              ELSE << >>)
                 \o (IF failed
                     THEN << [kind |-> "interfaces_error",
                              error |-> unwrap(shown.result.value)] >>
                     ELSE << >>)]

\* `get_route_table(protocol)?` in place of the match.
run_return_try(res) == IF res.tag = "Err" THEN res ELSE Ok(<< >>)

\* Lines 61-66 of run: whatever get_route_table returned, run returns Ok(()).
run_return(res) == Ok(<< >>)

\* `Err(e) => eprintln!("{}", e)`
report_route_error(res, err_stream) ==
    IF res.tag = "Err"
    THEN Append(err_stream, [kind |-> "route_error", error |-> unwrap(res.value)])
    ELSE err_stream

S_ip4 == <<"1","0",".","0",".","0",".","2">>

S_mask6 == <<"f","f","f","f",":",":">>

S_en1 == <<"e","n","1">>

S_Unreachable == <<"N","e","t","w","o","r","k"," ","i","s"," ","u","n","r","e","a","c","h","a","b","l","e"," ","(","o","s"," ","e","r","r","o","r"," ","1","0","1",")">>

\* The io::Error of a socket without a route to the peer.
E_Unreachable == [kind |-> "io::Error", msg |-> S_Unreachable]

\* What the socket reports: an I/O error, a V4 address, a V6 address.
Sockets ==
    {[tag |-> "io::Error", ip |-> << >>, error |-> Some(E_Unreachable)],
     [tag |-> "V4", ip |-> S_ip4, error |-> None],
     [tag |-> "V6", ip |-> S_gw2, error |-> None]}

V4Addr == [tag |-> "V4", ip |-> S_ip4, netmask |-> S_mask]

V6Addr == [tag |-> "V6", ip |-> S_gw2, netmask |-> S_mask6]

\* What get_if_addrs returns: an error, no interface, interfaces out of
\* order with a name that occurs twice, a name with a character of two
\* bytes, interfaces of one version.
IfAddrs ==
    {Err(E_Unreachable),
     Ok(<< >>),
     Ok(<< [name |-> S_lo0, addr |-> V6Addr], [name |-> S_en1, addr |-> V4Addr],
           [name |-> S_en0, addr |-> V6Addr], [name |-> S_en1, addr |-> V6Addr] >>),
     Ok(<< [name |-> S_e0, addr |-> V4Addr], [name |-> S_lo0, addr |-> V4Addr],
           [name |-> S_en0, addr |-> V6Addr] >>),
     Ok(<< [name |-> S_en0, addr |-> V4Addr] >>)}

\* The netstat texts of a run: a table, and a text with a two-token row.
RunLinuxTexts ==
    {text_of(<<L_LinuxHeader, L_LinuxDefault>>), text_of(<<L_LinuxHeader, L_Short>>)}

RunMacTexts ==
    {text_of(<<L_Inet, L_MacHeader, L_MacDefault, L_Inet6, L_MacHeader, L_Mac6>>),
     text_of(<<L_Inet, L_MacHeader, L_Short>>)}

InitRun ==
    /\ pc = "run"
    /\ protocol \in Protocols
    /\ env \in [only_show_ip : BOOLEAN, first_socket : Sockets,
                second_socket : Sockets, if_addrs : IfAddrs]
    /\ \/ target_os = "linux" /\ cmd \in CmdOutcomes(target_os, RunLinuxTexts)
       \/ target_os = "macos" /\ cmd \in CmdOutcomes(target_os, RunMacTexts)
       \/ target_os \in {"windows", "freebsd"} /\ cmd \in CmdOutcomes(target_os, {text_of(<<L_Kernel>>)})
    /\ output = << >>
    /\ lines = << >>
    /\ pos = 0
    /\ header_parsed = FALSE
    /\ current_section = None
    /\ route_table = new
    /\ result = None
    /\ stdout = << >>
    /\ calls = << >>
    /\ ncalls = 0
    /\ ret = Unit
    /\ caller = "none"
    /\ stderr = << >>

\* run up to its call of get_route_table: the first get_local_ip ends the
\* process with status 1 on an error; with --ip only the address is printed.
RunListing ==
    /\ pc = "run"
    /\ LET main_ip_addr == get_local_ip(env.first_socket)
           listing == run_listing(protocol, env.second_socket, env.if_addrs)
       IN  IF main_ip_addr.tag = "Err"
           THEN /\ stderr' = Append(stderr, [kind |-> "ip_error",
                                             error |-> unwrap(main_ip_addr.value)])
                /\ pc' = "exit_1"
                /\ UNCHANGED <<stdout, ret, caller>>
           ELSE IF env.only_show_ip
           THEN /\ stdout' = Append(stdout, [kind |-> "ip",
                                             ip |-> unwrap(main_ip_addr.value)])
                /\ ret' = [op |-> "run", arg |-> <<protocol, TRUE>>,
                           value |-> Ok(<< >>)]
                /\ pc' = "run_returned"
                /\ UNCHANGED <<stderr, caller>>
           ELSE /\ stdout' = stdout \o listing.stdout
                /\ stderr' = stderr \o listing.stderr
                /\ caller' = "run"
                /\ pc' = "get_route_table"
                /\ UNCHANGED ret
    /\ UNCHANGED <<env, target_os, cmd, output, lines, pos, header_parsed,
                   current_section, route_table, result, protocol, calls, ncalls>>

\* get_route_table has returned to run.
RunReturn ==
    /\ pc = "returned"
    /\ caller = "run"
    /\ stderr' = report_route_error(unwrap(result), stderr)
    /\ ret' = [op |-> "run", arg |-> <<protocol, env.only_show_ip>>,
               value |-> run_return(unwrap(result))]
    /\ pc' = "run_returned"
    /\ UNCHANGED <<caller, env, target_os, cmd, output, lines, pos, header_parsed,
                   current_section, route_table, result, protocol, stdout, calls, ncalls>>

NextRun ==
    \/ RunListing
    \/ NextReport
    \/ RunReturn

SpecRun == InitRun /\ [][NextRun]_vars

----------------------------------------------------------------------------
(* Claims about the RouteTable interface, checked under SpecApi. *)

CallsOf(v) == SelectSeq(calls, LAMBDA e : e.ip_version = v)

DefaultLiterals == {S_default, S_0000, S_v6any}

\* C1: get_default_gateway(v) returns the first entry, in insertion order, of
\* the entries added with version v whose destination is exactly "default",
\* "0.0.0.0" or "::/0", and None when there is none; the entries of the other
\* version play no part.
C1_DefaultGatewayFirstMatch ==
    ret.op = "get_default_gateway" =>
        LET seq == CallsOf(ret.arg[1])
            hits == {i \in DOMAIN seq : seq[i].destination \in DefaultLiterals}
        IN  ret.value = IF hits = {} THEN None ELSE Some(seq[SetMin(hits)])

\* C1 witness: a lookup that returned an entry which is neither the first nor
\* the only default entry of its version, with the other version populated.
C1_Witness ==
    /\ ret.op = "get_default_gateway"
    /\ is_some(ret.value)
    /\ LET seq == CallsOf(ret.arg[1])
           hits == {i \in DOMAIN seq : seq[i].destination \in DefaultLiterals}
       IN  /\ Cardinality(hits) >= 2
           /\ \E i \in hits : seq[i] # unwrap(ret.value)
    /\ \E v \in IpVersion : v # ret.arg[1] /\ CallsOf(v) # << >>

\* C8: new() is empty, and after any sequence of add_route calls each sequence
\* holds exactly the entries of its version, in call order, duplicates kept.
C8_AddRouteAppends ==
    /\ route_table.ipv4_routes = CallsOf("IPv4")
    /\ route_table.ipv6_routes = CallsOf("IPv6")
    /\ ncalls = 0 => route_table = [ipv4_routes |-> << >>, ipv6_routes |-> << >>]

\* C8 witness: the same entry added twice, and an entry of the other version.
C8_Witness ==
    /\ \E i, j \in DOMAIN route_table.ipv4_routes :
         i < j /\ route_table.ipv4_routes[i] = route_table.ipv4_routes[j]
    /\ route_table.ipv6_routes # << >>

Optional == {"genmask", "expire"}

\* C9 as stated: the accessible names are destination, gateway, flags,
\* interface, genmask and expire.
C9_GetFieldInterface ==
    ret.op = "get_field" =>
        LET e == ret.arg[1]
            f == ret.arg[2]
            attr == IF f = "interface" THEN "iface" ELSE f
            Named == {"destination", "gateway", "flags", "interface", "genmask", "expire"}
        IN  /\ f \in Named \ Optional => ret.value = Some(e[attr])
            /\ f \in Optional => ret.value = e[attr]
            /\ ret.value = None <=> (f \notin Named \/ (f \in Optional /\ e[attr] = None))

\* C9 amended: get_field returns the entry's value for each of the names
\* destination, gateway, flags, iface, genmask and expire, and None exactly
\* when the name is none of these (the name "interface" included) or names an
\* optional field that is unset.
C9_GetFieldIface ==
    ret.op = "get_field" =>
        LET e == ret.arg[1]
            f == ret.arg[2]
            Named == {"destination", "gateway", "flags", "iface", "genmask", "expire"}
        IN  /\ f \in Named \ Optional => ret.value = Some(e[f])
            /\ f \in Optional => ret.value = e[f]
            /\ ret.value = None <=> (f \notin Named \/ (f \in Optional /\ e[f] = None))

\* C9 witness: the optional field expire was read from an entry that has it.
C9_Witness ==
    /\ ret.op = "get_field"
    /\ ret.arg[2] = "expire"
    /\ ret.value = Some(S_12)

----------------------------------------------------------------------------
(* Claims about the parsers and the collectors, checked under SpecParse. *)

InLinuxParser == pc \in {"linux_loop", "linux_done", "linux_panicked"}

InMacosParser == pc \in {"macos_loop", "macos_done", "macos_panicked"}

Tokens(line) == split_whitespace(trim(line))

IsHeader(line) == starts_with(trim(line), S_Destination)

IsInet(line) == starts_with(trim(line), S_InternetColon)

IsInet6(line) == starts_with(trim(line), S_Internet6Colon)

\* A non-empty line with fewer tokens than the four columns both layouts index.
IsShort(line) == trim(line) # << >> /\ Len(Tokens(line)) < 4

\* C2: a non-empty line with fewer than four tokens, reached while entries are
\* being parsed, does not abort the parse and adds nothing: after the parser
\* has consumed such a line it is still running (or has returned) and its
\* table is a table, not a panic.
C2_ShortLineSkipped ==
    (InLinuxParser \/ InMacosParser) /\ pos >= 1 /\ IsShort(lines[pos])
        => pc \notin {"linux_panicked", "macos_panicked"}

\* C3: in parse_linux_route_output no entry comes from a line before the
\* header row or from the header row itself: as long as no line strictly after
\* the first "Destination" line has been consumed, the table is empty.
C3_LinuxHeaderNotAnEntry ==
    InLinuxParser /\ (\A k \in 1..(pos - 1) : ~IsHeader(lines[k]))
        => route_table = new

\* C4: in parse_macos_route_output the line that sets header_parsed (a line
\* consumed while header_parsed is false) is never turned into an entry.
C4_MacosHeaderNotAnEntry ==
    [][pc = "macos_loop" /\ ~header_parsed => route_table' = route_table]_vars

\* The entry the Linux column layout gives for a row of at least four tokens.
LinuxEntry(line) ==
    LET t == Tokens(line)
    IN  RouteEntry(t[1], t[2], t[4], t[Len(t)], "IPv4", Some(t[3]), None)

RECURSIVE LinuxEntries(_)
LinuxEntries(rows) ==
    IF rows = << >> THEN << >>
    ELSE IF Len(Tokens(Head(rows))) >= 4
         THEN <<LinuxEntry(Head(rows))>> \o LinuxEntries(Tail(rows))
         ELSE LinuxEntries(Tail(rows))

\* C5: on a Linux build, once the header has been consumed, ipv4_routes holds
\* exactly one entry per well-formed row after the header, in line order, with
\* the Linux column layout, ipv6_routes is empty, and the parse is going on.
C5_LinuxRowsAfterHeader ==
    InLinuxParser /\ target_os = "linux" /\ (\E k \in 1..pos : IsHeader(lines[k]))
        => LET h == SetMin({k \in 1..pos : IsHeader(lines[k])})
           IN  /\ pc # "linux_panicked"
               /\ route_table.ipv4_routes = LinuxEntries(SubSeq(lines, h + 1, pos))
               /\ route_table.ipv6_routes = << >>

\* The section marker that most recently precedes line k (0 if none).
LastMarker(k) ==
    LET ms == {j \in 1..(k - 1) : IsInet(lines[j]) \/ IsInet6(lines[j])}
    IN  IF ms = {} THEN 0 ELSE SetMax(ms)

\* C6: whenever parse_macos_route_output adds an entry for a line, a section
\* marker precedes the line, a "Destination" header lies after that marker and
\* not after the line, and the entry is appended, tagged with the version of
\* that marker, to the sequence of that version; the other sequence is left
\* as it was.
C6_MacosSectionTagging ==
    [][pc = "macos_loop" /\ route_table' # route_table =>
         LET k == pos + 1
             m == LastMarker(k)
         IN  /\ m > 0
             /\ \E j \in (m + 1)..k : IsHeader(lines[j])
             /\ IF IsInet(lines[m])
                THEN /\ Len(route_table'.ipv4_routes) = Len(route_table.ipv4_routes) + 1
                     /\ route_table'.ipv4_routes[Len(route_table'.ipv4_routes)].ip_version = "IPv4"
                     /\ route_table'.ipv6_routes = route_table.ipv6_routes
                ELSE /\ Len(route_table'.ipv6_routes) = Len(route_table.ipv6_routes) + 1
                     /\ route_table'.ipv6_routes[Len(route_table'.ipv6_routes)].ip_version = "IPv6"
                     /\ route_table'.ipv4_routes = route_table.ipv4_routes]_vars

\* C6 witness: output with the "Internet6:" section before the "Internet:"
\* section, parsed to the end, with entries in both sequences, each tagged
\* with the version of its section.
C6_Witness ==
    /\ pc = "macos_done"
    /\ \E i, j \in 1..Len(lines) : IsInet6(lines[i]) /\ IsInet(lines[j]) /\ i < j
    /\ route_table.ipv4_routes # << >>
    /\ route_table.ipv6_routes # << >>
    /\ \A i \in DOMAIN route_table.ipv4_routes : route_table.ipv4_routes[i].ip_version = "IPv4"
    /\ \A i \in DOMAIN route_table.ipv6_routes : route_table.ipv6_routes[i].ip_version = "IPv6"

\* s occurs in t.
contains(t, s) == \E i \in 1..(Len(t) - Len(s) + 1) : SubSeq(t, i, i + Len(s) - 1) = s

\* C7: when the netstat command starts but exits nonzero, the collector fails
\* with an error that carries the captured stderr text, and produces no table.
C7_ExitFailureCarriesStderr ==
    pc = "done" /\ cmd.spawned /\ ~cmd.success
        => /\ is_some(result)
           /\ unwrap(result).tag = "Err"
           /\ contains(unwrap(unwrap(result).value).msg, cmd.stderr)

----------------------------------------------------------------------------
(* Claims about get_route_table, checked under SpecReport. *)

\* The versions of which get_route_table has printed a banner, a row or a
\* default gateway.
Rendered ==
    {stdout[i].version : i \in {j \in DOMAIN stdout : stdout[j].kind \notin {"title", "raw"}}}

SectionComplete(v) ==
    \E i, j \in DOMAIN stdout :
        /\ i < j
        /\ stdout[i] = [kind |-> "routes_banner", version |-> v]
        /\ stdout[j] = [kind |-> "gateway_banner", version |-> v]

\* C10: once a table has been collected, get_route_table(protocol) returns
\* Ok(()) having rendered the IPv4 section exactly when protocol is "ipv4" or
\* "all" and the IPv6 section exactly when protocol is "ipv6" or "all"; any
\* other protocol renders neither.
C10_ProtocolFilter ==
    pc = "returned" /\ target_os \in {"linux", "macos"} /\ Collected.tag = "Ok"
        => /\ result = Some(Ok(<< >>))
           /\ Rendered = {v \in IpVersion :
                            \/ v = "IPv4" /\ protocol \in {"ipv4", "all"}
                            \/ v = "IPv6" /\ protocol \in {"ipv6", "all"}}
           /\ \A v \in Rendered : SectionComplete(v)

\* C10 witness: "all" has rendered both sections, each with a row.
C10_Witness ==
    /\ pc = "returned"
    /\ protocol = "all"
    /\ result = Some(Ok(<< >>))
    /\ \A v \in IpVersion :
         \E i \in DOMAIN stdout : stdout[i].kind = "row" /\ stdout[i].version = v

\* C10 witness of the other case: an unrecognized protocol rendered nothing
\* but the title although the table has entries.
C10_WitnessUnrecognized ==
    /\ pc = "returned"
    /\ protocol = "tcp"
    /\ result = Some(Ok(<< >>))
    /\ route_table.ipv4_routes # << >>
    /\ stdout = <<[kind |-> "title"]>>

----------------------------------------------------------------------------
(* Claims about the macOS section state machine and the macOS line rule,     *)
(* checked under SpecParse.                                                  *)

IsMarker(line) == IsInet(line) \/ IsInet6(line)

\* C14: in parse_macos_route_output a line starting with "Internet:" or
\* "Internet6:" adds no entry, selects its section and resets header_parsed;
\* and a line for which no section is active, or whose section has had no
\* "Destination" line since its marker, adds no entry, whatever headers were
\* seen before that marker.
C14_MacosSectionHeader ==
    [][pc = "macos_loop" /\ pos' = pos + 1 =>
         LET k == pos + 1
             m == LastMarker(k)
         IN  /\ IsMarker(lines[k]) =>
                   /\ route_table' = route_table
                   /\ header_parsed' = FALSE
                   /\ current_section' = Some(IF IsInet(lines[k]) THEN "IPv4" ELSE "IPv6")
             /\ (m = 0 \/ \A j \in (m + 1)..k : ~IsHeader(lines[j])) =>
                   route_table' = route_table]_vars

\* C14 witness: a section with its header, then the marker of another section
\* and a well-formed row right after it, which was not added.
C14_Witness ==
    /\ pc = "macos_done"
    /\ Len(lines) = 4
    /\ IsMarker(lines[1])
    /\ IsHeader(lines[2])
    /\ IsMarker(lines[3])
    /\ ~IsHeader(lines[4]) /\ ~IsMarker(lines[4]) /\ Len(Tokens(lines[4])) >= 4
    /\ Len(route_table.ipv4_routes) + Len(route_table.ipv6_routes) = 1

AllRoutes ==
    {route_table.ipv4_routes[i] : i \in DOMAIN route_table.ipv4_routes}
        \cup {route_table.ipv6_routes[i] : i \in DOMAIN route_table.ipv6_routes}

\* The expire field the macOS line rule gives for a last token.
MacExpire(last) ==
    IF last = S_Expire \/ (\A i \in DOMAIN last : last[i] \in
                             {"0","1","2","3","4","5","6","7","8","9"})
    THEN Some(last) ELSE None

\* C15: on a macOS build every entry of the table is built from a consumed
\* line of at least four tokens with destination, gateway, flags and interface
\* the tokens 0 to 3, genmask None, and expire the last token if and only if
\* that token is "Expire" or all ASCII digits; and on no build does an entry
\* have both genmask and expire.
C15_MacosLineRule ==
    /\ (InLinuxParser \/ InMacosParser) /\ target_os = "macos" =>
         \A e \in AllRoutes :
            \E k \in 1..pos :
               LET t == Tokens(lines[k])
               IN  /\ Len(t) >= 4
                   /\ e = RouteEntry(t[1], t[2], t[3], t[4], e.ip_version, None,
                                     MacExpire(t[Len(t)]))
    /\ \A e \in AllRoutes : ~(is_some(e.genmask) /\ is_some(e.expire))

\* C15 witness: a macOS table with an entry whose expire is "Expire", one
\* whose expire is a number and one without expire.
C15_Witness ==
    /\ pc = "macos_done"
    /\ target_os = "macos"
    /\ \E e \in AllRoutes : e.expire = Some(S_Expire)
    /\ \E e \in AllRoutes : e.expire = Some(S_12)
    /\ \E e \in AllRoutes : e.expire = None /\ e.genmask = None

----------------------------------------------------------------------------
(* Claims about the rows get_route_table prints, checked under SpecReport.   *)
(* A cell is its text padded with spaces to the number of characters its     *)
(* format argument gives.  The length of a value is its length in bytes, and *)
(* no text has more characters than bytes, so the number of characters of a  *)
(* printed cell is the width of its column.                                  *)

RoutesOf(v) == IF v = "IPv4" THEN route_table.ipv4_routes ELSE route_table.ipv6_routes

\* The characters of a text from code point n on.
From(s, n) == {i \in DOMAIN s : Len(s[i]) > 1 /\ code_point(s[i]) >= n}

\* The length of a text in bytes: one for each character, one more for each
\* from U+0080 on, one more for each from U+0800 on, one more for each from
\* U+10000 on.
Bytes(s) ==
    Len(s) + Cardinality(From(s, 128)) + Cardinality(From(s, 2048))
           + Cardinality(From(s, 65536))

\* The maximum length of a field over the entries of version v: 0 for an
\* unset expire and for no entries.
MaxLenOf(v, f) ==
    LET routes == RoutesOf(v)
        len(e) == IF f = "expire"
                  THEN (IF e.expire = None THEN 0 ELSE Bytes(e.expire[1]))
                  ELSE Bytes(e[f])
    IN  IF routes = << >> THEN 0
        ELSE CHOOSE n \in {len(routes[i]) : i \in DOMAIN routes} :
                 \A i \in DOMAIN routes : len(routes[i]) <= n

Columns == <<"destination", "gateway", "flags", "iface", "expire">>

Rows == {i \in DOMAIN stdout : stdout[i].kind = "row"}

\* C13 as stated: every column of every row of a protocol is as wide as the
\* longest value, in bytes, of its field among the entries of that protocol.
C13_WidthIsMaxLen ==
    \A i \in Rows :
        \A c \in 1..5 :
            Len(stdout[i].cells[c].text) = MaxLenOf(stdout[i].version, Columns[c])

\* C13 amended: in every row of a protocol the destination and the expire
\* column are as wide as the longest value, in bytes, of their field among the entries
\* of that protocol, and the gateway, flags and interface columns are two
\* wider than the longest value of theirs; the entries of the other protocol
\* play no part, an unset expire counts as length 0, and a protocol without
\* entries has no rows.
C13_WidthIsMaxLenPlusGap ==
    /\ \A i \in Rows :
          \A c \in 1..5 :
              Len(stdout[i].cells[c].text)
                = MaxLenOf(stdout[i].version, Columns[c])
                    + (IF c \in {2, 3, 4} THEN 2 ELSE 0)
    /\ \A v \in IpVersion :
          RoutesOf(v) = << >> => \A i \in Rows : stdout[i].version # v

\* C13 witness: both protocols have been rendered, their expire columns
\* differ in width, and a gateway column is two wider than its longest value.
C13_Witness ==
    /\ pc = "returned"
    /\ \E i, j \in Rows :
          /\ stdout[i].version = "IPv4"
          /\ stdout[j].version = "IPv6"
          /\ Len(stdout[i].cells[5].text) # Len(stdout[j].cells[5].text)
          /\ MaxLenOf("IPv6", "gateway") > 0
          /\ Len(stdout[j].cells[2].text) = MaxLenOf("IPv6", "gateway") + 2

----------------------------------------------------------------------------
(* Claims about run, checked under SpecRun. *)

\* Route-table collection fails: the platform is unsupported, or the command
\* cannot be started, exits nonzero, or (netstat) prints bytes that are not
\* UTF-8.
CollectionFails ==
    \/ target_os \notin {"windows", "macos", "linux"}
    \/ target_os \in {"macos", "linux"} /\ ~(cmd.spawned /\ cmd.success /\ cmd.utf8)
    \/ target_os = "windows" /\ ~(cmd.spawned /\ cmd.success)

\* The error each failure is reported with.
CollectionError ==
    IF target_os = "windows"
    THEN [kind |-> "anyhow",
          msg |-> S_ErrorExecuting
                  \o IF cmd.spawned THEN cmd.stderr ELSE S_ProgramNotFound]
    ELSE IF target_os \notin {"macos", "linux"} THEN E_Unsupported
    ELSE IF ~cmd.spawned THEN E_Io
    ELSE IF ~cmd.success THEN E_NetstatFailed
    ELSE IF cmd.stdout[1] \in InvalidBytes THEN E_Utf8
    ELSE E_Utf8At2

OfKind(stream, k) == {i \in DOMAIN stream : stream[i].kind = k}

\* The interfaces the listing is to show, as get_if_addrs returned them.
Listed ==
    LET all == unwrap(env.if_addrs.value)
    IN  {k \in DOMAIN all :
            \/ protocol \notin {"ipv4", "ipv6"}
            \/ protocol = "ipv4" /\ all[k].addr.tag = "V4"
            \/ protocol = "ipv6" /\ all[k].addr.tag = "V6"}

\* The main IP address and the interface listing as the sockets and the
\* interfaces alone determine them: the title first; the main address, or its
\* error on the error stream; one line per interface of the protocol, in name
\* order, and the count, or two red banners and the error on the error stream;
\* an empty line.
ListingProduced ==
    /\ stdout # << >>
    /\ stdout[1].kind = "interfaces_title"
    /\ IF env.second_socket.tag = "V4"
       THEN /\ OfKind(stdout, "main_ip") = {2}
            /\ stdout[2].ip = env.second_socket.ip
            /\ OfKind(stderr, "ip_error") = {}
       ELSE /\ OfKind(stdout, "main_ip") = {}
            /\ OfKind(stderr, "ip_error") # {}
    /\ IF env.if_addrs.tag = "Ok" /\ unwrap(env.if_addrs.value) # << >>
       THEN LET all == unwrap(env.if_addrs.value)
                shown == OfKind(stdout, "interface")
            IN  /\ Cardinality(shown) = Cardinality(Listed)
                /\ \A k \in Listed :
                      \E i \in shown :
                          /\ trim(stdout[i].name) = all[k].name
                          /\ stdout[i].ip_info
                               = (IF all[k].addr.tag = "V4" THEN S_IPv4Colon
                                  ELSE S_IPv6Colon)
                                 \o all[k].addr.ip \o <<"/">> \o all[k].addr.netmask
                /\ \A i, j \in shown :
                      i < j => ~str_lt(trim(stdout[j].name), trim(stdout[i].name))
                /\ \E i \in OfKind(stdout, "found") :
                      /\ stdout[i].len_interfaces = Len(all)
                      /\ stdout[i].displayed_count = Cardinality(Listed)
                /\ OfKind(stderr, "interfaces_error") = {}
       ELSE /\ OfKind(stdout, "interface") = {}
            /\ \E i \in DOMAIN stdout :
                  /\ stdout[i] = [kind |-> "banner", color |-> "red"]
                  /\ i + 1 \in DOMAIN stdout
                  /\ stdout[i + 1] = [kind |-> "banner", color |-> "red"]
            /\ \E i \in OfKind(stderr, "interfaces_error") :
                  stderr[i].error = IF env.if_addrs.tag = "Err"
                                    THEN unwrap(env.if_addrs.value)
                                    ELSE E_NoInterfaces
    /\ OfKind(stdout, "empty") # {}

RouteOutput == {"title", "raw", "row", "routes_banner", "gateway_banner", "default_gateway"}

\* C11: once run has come to get_route_table, the main-IP output and the
\* interface listing are on the output whatever the route command does; when
\* collection fails (unsupported platform, the command not started, a nonzero
\* exit, output that is not UTF-8) get_route_table returns that error to run
\* without a panic and without printing, and run writes the error to the
\* error stream as its last line and returns Ok(()).
C11_RouteFailureNonFatal ==
    caller = "run" =>
        /\ ListingProduced
        /\ CollectionFails =>
              /\ pc \in {"get_route_table", "returned", "run_returned"}
              /\ \A i \in DOMAIN stdout : stdout[i].kind \notin RouteOutput
              /\ pc # "get_route_table" => result = Some(Err(CollectionError))
              /\ pc = "run_returned" =>
                    /\ ret.op = "run"
                    /\ ret.value = Ok(<< >>)
                    /\ stderr # << >>
                    /\ stderr[Len(stderr)]
                         = [kind |-> "route_error", error |-> CollectionError]

\* C11 witness: run has returned after netstat printed a character of two
\* bytes and then a byte that is not UTF-8, with interface lines on the
\* output and the error of byte 2 on the error stream.
C11_Witness ==
    /\ pc = "run_returned"
    /\ caller = "run"
    /\ target_os = "linux"
    /\ cmd.spawned /\ cmd.success /\ ~cmd.utf8
    /\ cmd.stdout[1] \notin InvalidBytes
    /\ OfKind(stdout, "interface") # {}
    /\ stderr[Len(stderr)] = [kind |-> "route_error", error |-> E_Utf8At2]

====
